---- MODULE Spec2Model ----
(***************************************************************************)
(* State-machine model of the data-fetching hooks useFetch (with its       *)
(* method-bound wrappers) and useGraphQL: debounce timer, cache lookup,    *)
(* retry loop with one AbortController and one timeout timer per attempt,  *)
(* manual abort, unmount cleanup, and the module-level response caches.    *)
(*                                                                         *)
(* JavaScript runs each callback to completion, so one action is one       *)
(* callback or one continuation of the async function between two awaits.  *)
(***************************************************************************)
EXTENDS Integers, Sequences, FiniteSets, TLC

VARIABLES hooks, cache

vars == <<hooks, cache>>

\* ------------------------------------------------------------------ bounds

\* Largest `retries` of a run that the consumer leaves alone (SpecRetry).
MaxRetries == 2
\* Transport invocations one hook instance makes when the consumer may
\* refetch, abort and unmount (Spec, SpecShared).
MaxCalls == 2
\* refetch()/fetch() calls made on one hook instance.
MaxRefetch == 1
\* abort() calls made on one hook instance.
MaxAborts == 1

\* Hook instances (components that call the hook).
Inst == {1, 2}

\* ------------------------------------------------------- program constants

DEFAULT_RETRIES == 3
DEFAULT_USE_CACHE == FALSE
DEFAULT_HTTP_METHOD == "GET"
DEFAULT_FOLLOW_CONVENTIONS == TRUE
DEFAULT_RUN_IN_FUTURE == FALSE
CACHE_ALLOWED_METHOD == {"GET", "HEAD", "POST"}

Methods == {"GET", "HEAD", "POST", "PUT", "DELETE", "CONNECT", "OPTIONS", "TRACE", "PATCH"}

\* --------------------------------------------------------------- JS values

\* An optional value (T | undefined) is a sequence of length at most one.
Undefined == <<>>
Some(v) == <<v>>

\* obj.f with a default, as destructuring `{ f = d } = obj` reads it.
Get(obj, f, d) == IF f \in DOMAIN obj THEN obj[f] ELSE d

\* `obj.f` as a condition: a missing field and the empty string are falsy.
Truthy(obj, f) == f \in DOMAIN obj /\ obj[f] # ""

\* { ...obj, f: v }
With(obj, f, v) == [g \in DOMAIN obj \cup {f} |-> IF g = f THEN v ELSE obj[g]]

\* obj without the fields fs (the `...options` rest of a destructuring, `delete`).
Without(obj, fs) == [g \in DOMAIN obj \ fs |-> obj[g]]

\* xs.join(sep) for a sequence of strings.
RECURSIVE Join(_, _)
Join(xs, sep) ==
    IF Len(xs) = 0 THEN ""
    ELSE IF Len(xs) = 1 THEN xs[1]
    ELSE xs[1] \o sep \o Join(Tail(xs), sep)

\* -------------------------------------------------- transport (environment)

\* Responses the transport may resolve with.
Responses ==
    { [ok |-> TRUE, status |-> 200, statusText |-> "OK"],
      [ok |-> FALSE, status |-> 500, statusText |-> "Internal Server Error"] }

\* Values a rejected promise may carry: an Error with a message, or a value
\* that is not an Error.
NetworkError == [isError |-> TRUE, name |-> "TypeError", message |-> "Network Error"]
AbortError == [isError |-> TRUE, name |-> "AbortError", message |-> "The operation was aborted."]
SyntaxError == [isError |-> TRUE, name |-> "SyntaxError", message |-> "Unexpected token"]
NonError == [isError |-> FALSE, name |-> "string"]

\* Bodies response.json() may decode to, for a REST and for a GraphQL endpoint.
JsonBodies(kind) ==
    IF kind = "graphql"
    THEN { [data |-> [hello |-> "Hello world!"]],
           [data |-> [hello |-> "Hello world!"], errors |-> <<>>],
           [errors |-> <<[message |-> "e1"], [message |-> "e2"]>>],
           [data |-> [hello |-> "Hello world!"],
            errors |-> <<[message |-> "e1"], [message |-> "e2"]>>] }
    ELSE { [message |-> "Success"], [message |-> "Cached Data"] }

\* The method a request goes out with: the transport's default is GET.
TransportMethod(req) == Get(req, "method", "GET")

\* { ...a, ...b, ...c, ...d } of objects with disjoint fields.
Join4(a, b, c, d) ==
    [ f \in DOMAIN a \cup DOMAIN b \cup DOMAIN c \cup DOMAIN d |->
        IF f \in DOMAIN a THEN a[f]
        ELSE IF f \in DOMAIN b THEN b[f]
        ELSE IF f \in DOMAIN c THEN c[f] ELSE d[f] ]

\* ------------------------------------------------------ hook configuration

HookFields ==
    {"followConventions", "retries", "retryDelay", "timeout", "debounceTime",
     "useCache", "method", "runInFuture"}

\* The destructuring without the caching check of the followConventions block.
UseFetchParamsKeepCache(url, config) ==
    LET followConventions == Get(config, "followConventions", DEFAULT_FOLLOW_CONVENTIONS)
        method == Get(config, "method", DEFAULT_HTTP_METHOD)
        options == Without(config, HookFields)
        headBody == followConventions /\ method = "HEAD" /\ Truthy(options, "body")
    IN  [ kind |-> "fetch",
          url |-> url,
          key |-> url,
          retries |-> Get(config, "retries", DEFAULT_RETRIES),
          useCache |-> Get(config, "useCache", DEFAULT_USE_CACHE),
          method |-> method,
          runInFuture |-> Get(config, "runInFuture", DEFAULT_RUN_IN_FUTURE),
          options |-> IF headBody THEN Without(options, {"body"}) ELSE options,
          warned |-> IF headBody THEN {"head-body"} ELSE {} ]

\* The destructuring and the followConventions block of useFetch.
UseFetchParams(url, config) ==
    LET followConventions == Get(config, "followConventions", DEFAULT_FOLLOW_CONVENTIONS)
        method == Get(config, "method", DEFAULT_HTTP_METHOD)
        useCache == Get(config, "useCache", DEFAULT_USE_CACHE)
        options == Without(config, HookFields)
        headBody == followConventions /\ method = "HEAD" /\ Truthy(options, "body")
        noCache == followConventions /\ method \notin CACHE_ALLOWED_METHOD /\ useCache
    IN  [ kind |-> "fetch",
          url |-> url,
          key |-> url,
          retries |-> Get(config, "retries", DEFAULT_RETRIES),
          useCache |-> useCache /\ ~noCache,
          method |-> method,
          runInFuture |-> Get(config, "runInFuture", DEFAULT_RUN_IN_FUTURE),
          options |-> IF headBody THEN Without(options, {"body"}) ELSE options,
          warned |-> (IF headBody THEN {"head-body"} ELSE {})
                     \cup (IF noCache THEN {"no-cache"} ELSE {}) ]

\* useFetchGet ... useFetchPatch: useFetch(url, { ...config, method: M }).
UseFetchMethodParams(M, url, config) == UseFetchParams(url, With(config, "method", M))

\* JSON.stringify of an object, which is the sequence of its <<key, value>>
\* pairs in the order they were written: the pairs are serialized in that
\* order, and a pair whose value is undefined is left out.
Stringify(obj) == SelectSeq(obj, LAMBDA kv : kv[2] # "undefined")

\* JSON.stringify({ url, query, variables }): the fields in this order, the
\* variables in the order the caller's object lists them.
CacheKey(url, query, variables) == <<url, query, Stringify(variables)>>

\* The destructuring of useGraphQL.
UseGraphQLParams(url, query, config) ==
    LET variables == Get(config, "variables", <<>>)
    IN  [ kind |-> "graphql",
          url |-> url,
          key |-> CacheKey(url, query, variables),
          retries |-> Get(config, "retries", DEFAULT_RETRIES),
          useCache |-> Get(config, "useCache", DEFAULT_USE_CACHE),
          method |-> "POST",
          runInFuture |-> FALSE,
          options |-> [ method |-> "POST",
                        headers |-> Get(config, "headers", "application/json"),
                        body |-> [query |-> query, variables |-> variables] ],
          warned |-> {} ]

\* The method each method-bound wrapper binds.
WrapperMethod ==
    [ useFetchGet |-> "GET", useFetchHead |-> "HEAD", useFetchPost |-> "POST",
      useFetchPut |-> "PUT", useFetchDelete |-> "DELETE", useFetchConnect |-> "CONNECT",
      useFetchOptions |-> "OPTIONS", useFetchTrace |-> "TRACE", useFetchPatch |-> "PATCH" ]

\* A call of one of the exported hooks.
Params(call) ==
    IF call.hook = "useGraphQL" THEN UseGraphQLParams(call.url, call.query, call.config)
    ELSE IF call.hook = "useFetch" THEN UseFetchParams(call.url, call.config)
    ELSE UseFetchMethodParams(WrapperMethod[call.hook], call.url, call.config)

\* fetch(url, { ...options, signal }) and its GraphQL counterpart.
Request(p, signal) == With(p.options, "signal", signal)

\* ------------------------------------------------------------ hook instance

\* The state of a component that has not called the hook yet.
NoHook ==
    [ phase |-> "idle",
      params |-> [kind |-> "none"],
      data |-> Undefined, loading |-> FALSE, error |-> Undefined,
      controllerRef |-> 0,
      debounceTimerRef |-> "null",
      debounceTimers |-> <<>>,
      timeoutIds |-> {},
      atts |-> <<>>,
      seqs |-> <<>>,
      lastReq |-> Undefined,
      calls |-> 0, refetches |-> 0, aborts |-> 0,
      bursts |-> 0, fires |-> 0, quiet |-> FALSE, earlyFire |-> FALSE,
      disturbed |-> FALSE,
      lastThrown |-> Undefined, lastResult |-> Undefined,
      seed |-> Undefined ]

\* hooks[i] is a record with these fields:
\*   phase             "idle" (not mounted yet), "mounted", "unmounted"
\*   params            the hook's parameters after destructuring
\*   data, loading, error   the published state (useState)
\*   controllerRef     0 (null) or the index in atts of the referenced controller
\*   debounceTimerRef  "null", "pending" (the last of debounceTimers) or "stale"
\*   debounceTimers    pending debounce timers, oldest first: whether
\*                     debounceTime has passed since the timer was set
\*   timeoutIds        indices in atts of the tracked timeout timers
\*   atts              one record per attempt started: its AbortController
\*                     (aborted), its timeout timer ("pending", "cleared" or
\*                     "fired"), and whether abort() hit it in flight (manual)
\*   seqs              one record per run of the debounce callback that reached
\*                     the retry loop: pc, attempt, cur (its attempt in atts)
\*   lastReq           the request of the latest transport invocation
\* and these history fields, which no action reads to decide what to do:
\*   calls             transport invocations
\*   refetches, aborts refetch() and abort() calls (bounded by the guards)
\*   bursts, fires     trigger bursts begun, debounce callbacks run
\*   quiet             debounceTime has passed since the latest trigger
\*   earlyFire         a debounce callback ran while quiet was false
\*   disturbed         refetch(), abort() or unmount has happened
\*   lastThrown        the value the latest catch block caught
\*   lastResult        the value the latest success path published
\*   seed              what mount saw: the hook call, the initial data,
\*                     loading and error, the cache entry of the fingerprint,
\*                     whether another instance with the same cache entry had
\*                     settled, the transport invocations so far

CacheHas(c, p) == p.key \in DOMAIN c[p.kind]
CacheGet(c, p) == IF CacheHas(c, p) THEN c[p.kind][p.key] ELSE Undefined
CacheSet(c, p, v) ==
    [c EXCEPT ![p.kind] = [k \in DOMAIN @ \cup {p.key} |-> IF k = p.key THEN v ELSE @[k]]]

\* The state setters. The hook calls them whether or not the component is
\* still mounted; the fields keep the value of the latest call.
SetData(h, v) == [h EXCEPT !.data = v]
SetLoading(h, b) == [h EXCEPT !.loading = b]
SetError(h, e) == [h EXCEPT !.error = e]

\* A controller whose abort() does nothing.
AbortControllerIdle(h, a) == h

\* controller.abort() on the controller of attempt a (a = 0: no controller).
AbortController(h, a) ==
    IF a = 0 THEN h
    ELSE [h EXCEPT !.atts[a].aborted = TRUE]

\* clearTimeout(id) on the timeout timer of attempt a.
ClearTimeout(h, a) ==
    IF h.atts[a].timer = "pending" THEN [h EXCEPT !.atts[a].timer = "cleared"] ELSE h

RECURSIVE ClearTimeouts(_, _)
ClearTimeouts(h, ids) ==
    IF ids = {} THEN h
    ELSE LET a == CHOOSE x \in ids : TRUE
         IN  ClearTimeouts(ClearTimeout(h, a), ids \ {a})

\* An attempt is in flight while its sequence awaits fetch() or response.json().
InFlight(h, a) ==
    \E s \in 1..Len(h.seqs) : h.seqs[s].cur = a /\ h.seqs[s].pc \in {"fetch", "json"}

Running(h) == \E s \in 1..Len(h.seqs) : h.seqs[s].pc # "done"

\* ------------------------------------------------- fetchData and the loop

\* fetchData without its clearTimeout.
ClearDebounceMissing(h) == h

\* if (debounceTimerRef.current) clearTimeout(debounceTimerRef.current)
ClearDebounce(h) ==
    IF h.debounceTimerRef = "pending"
    THEN [h EXCEPT !.debounceTimers = SubSeq(@, 1, Len(@) - 1),
                   !.debounceTimerRef = "stale"]
    ELSE h

\* fetchData(): the pending debounce timer is replaced by a new one.
FetchData(h) ==
    LET h1 == ClearDebounce(h)
    IN  [h1 EXCEPT !.debounceTimers = Append(@, FALSE),
                   !.debounceTimerRef = "pending",
                   !.bursts = IF Len(h.debounceTimers) = 0 THEN @ + 1 ELSE @,
                   !.quiet = FALSE]

\* An iteration that leaves the previous controller alone.
StartAttemptNoSupersede(h, s) ==
    LET a == Len(h.atts) + 1
    IN  [h EXCEPT !.atts = Append(@, [aborted |-> FALSE, timer |-> "pending",
                                      manual |-> FALSE]),
                  !.controllerRef = a,
                  !.timeoutIds = @ \cup {a},
                  !.calls = @ + 1,
                  !.lastReq = Some(Request(h.params, a)),
                  !.seqs[s].cur = a,
                  !.seqs[s].pc = "fetch"]

\* One iteration of the loop up to `await fetch(...)`: the previous controller
\* is aborted, a new controller and its timeout timer are made, the request
\* is sent.
StartAttempt(h, s) ==
    LET h1 == AbortController(h, h.controllerRef)
        a == Len(h1.atts) + 1
    IN  [h1 EXCEPT !.atts = Append(@, [aborted |-> FALSE, timer |-> "pending",
                                       manual |-> FALSE]),
                   !.controllerRef = a,
                   !.timeoutIds = @ \cup {a},
                   !.calls = @ + 1,
                   !.lastReq = Some(Request(h.params, a)),
                   !.seqs[s].cur = a,
                   !.seqs[s].pc = "fetch"]

\* The loop without its finally block.
FinallyMissing(h) == h

\* `finally { setLoading(false) }`
Finally(h) == SetLoading(h, FALSE)

\* The loop is left without success: `break`, the finally block, and in
\* useFetch the setLoading(false) after the loop.
Exhausted(h, s) ==
    LET h1 == Finally(h)
        h2 == IF h.params.kind = "fetch" THEN SetLoading(h1, FALSE) ELSE h1
    IN  [h2 EXCEPT !.seqs[s].pc = "done"]

\* The catch block with the generic message on both branches.
ErrorMessageGeneric(err) == "An unknown error occurred"

\* The message the catch block publishes.
ErrorMessage(err) == IF err.isError THEN err.message ELSE "An unknown error occurred"

\* A catch block without `if (attempt > retries) break`.
CatchAlwaysWaits(h, s, err) ==
    LET h1 == SetError(h, Some(ErrorMessage(err)))
    IN  [h1 EXCEPT !.seqs[s].attempt = @ + 1, !.seqs[s].pc = "delay",
                   !.lastThrown = Some(err)]

\* `catch (err)`: the message is published; the sequence waits for the retry
\* delay or, with no attempt left, ends.
Catch(h, s, err) ==
    LET h1 == SetError(h, Some(ErrorMessage(err)))
        attempt == h.seqs[s].attempt + 1
        h2 == [h1 EXCEPT !.seqs[s].attempt = attempt, !.lastThrown = Some(err)]
    IN  IF attempt > h.params.retries
        THEN Exhausted(h2, s)
        ELSE [h2 EXCEPT !.seqs[s].pc = "delay"]

\* `throw new Error(...)` for a response that is not ok.
HttpError(response) ==
    [ isError |-> TRUE, name |-> "Error",
      message |-> "Error: " \o ToString(response.status) \o " " \o response.statusText ]

\* The throw with the message of the first entry only.
GraphQLErrorFirst(json) ==
    [ isError |-> TRUE, name |-> "Error", message |-> json.errors[1].message ]

\* `throw new Error(json.errors.map(e => e.message).join('; '))`
GraphQLError(json) ==
    [ isError |-> TRUE, name |-> "Error",
      message |-> Join([k \in 1..Len(json.errors) |-> json.errors[k].message], "; ") ]

\* What a decoded body publishes: the body itself, or its data for GraphQL.
Result(p, json) ==
    IF p.kind = "graphql"
    THEN (IF "data" \in DOMAIN json THEN Some(json.data) ELSE Undefined)
    ELSE Some(json)

\* `if (json.errors)`: an array, empty or not, is truthy.
HasErrors(p, json) == p.kind = "graphql" /\ "errors" \in DOMAIN json

\* The success path without setError(undefined).
SucceedKeepsError(h, s, json) ==
    LET h1 == SetData(h, Result(h.params, json))
        h3 == Finally(h1)
    IN  [h3 EXCEPT !.seqs[s].pc = "done", !.lastResult = Some(Result(h.params, json))]

\* The success path after decoding: setData, setError(undefined), return
\* through the finally block.
Succeed(h, s, json) ==
    LET h1 == SetData(h, Result(h.params, json))
        h2 == SetError(h1, Undefined)
        h3 == Finally(h2)
    IN  [h3 EXCEPT !.seqs[s].pc = "done", !.lastResult = Some(Result(h.params, json))]

\* A success path that writes the cache whatever useCache is.
WriteCacheAlways(c, p, json) == CacheSet(c, p, Result(p, json))

\* A success path that keeps an entry the cache already has.
WriteCacheOnce(c, p, json) ==
    IF p.useCache /\ ~CacheHas(c, p) THEN CacheSet(c, p, Result(p, json)) ELSE c

\* `if (useCache) cache.set(key, result)` on the success path.
WriteCache(c, p, json) == IF p.useCache THEN CacheSet(c, p, Result(p, json)) ELSE c

\* `if (useCache && cache.has(key))` at the head of the debounce callback.
CacheHit(h, c) == h.params.useCache /\ CacheHas(c, h.params)

\* The debounce callback without its cache lookup.
DebounceCallbackNoLookup(h, c) ==
    LET h1 == SetError(SetLoading(h, TRUE), Undefined)
        s == Len(h.seqs) + 1
        h2 == [h1 EXCEPT !.seqs = Append(@, [pc |-> "start", attempt |-> 0, cur |-> 0])]
    IN  StartAttempt(h2, s)

\* The debounce callback with a cache-hit path that publishes no data.
DebounceCallbackNoData(h, c) ==
    IF CacheHit(h, c) THEN SetLoading(h, FALSE) ELSE DebounceCallbackNoLookup(h, c)

\* The debounce callback up to its first await: the cache-hit return, or the
\* start of the retry loop.
DebounceCallback(h, c) ==
    IF CacheHit(h, c)
    THEN SetLoading(SetData(h, CacheGet(c, h.params)), FALSE)
    ELSE LET h1 == SetError(SetLoading(h, TRUE), Undefined)
             s == Len(h.seqs) + 1
             h2 == [h1 EXCEPT !.seqs = Append(@, [pc |-> "start", attempt |-> 0, cur |-> 0])]
         IN  StartAttempt(h2, s)

\* A cleanup that leaves the timeout timers alone.
CleanupKeepsTimeouts(h) ==
    LET h1 == ClearDebounce(h)
    IN  AbortController(h1, h1.controllerRef)

\* A cleanup that leaves the debounce timer alone.
CleanupKeepsDebounce(h) ==
    LET h2 == AbortController(h, h.controllerRef)
    IN  ClearTimeouts(h2, h2.timeoutIds)

\* The cleanup the effect returns.
Cleanup(h) ==
    LET h1 == ClearDebounce(h)
        h2 == AbortController(h1, h1.controllerRef)
    IN  ClearTimeouts(h2, h2.timeoutIds)

\* A first render whose effect always calls fetchData.
MountHookEager(call, c, seed) ==
    LET p == Params(call)
    IN  FetchData([NoHook EXCEPT !.phase = "mounted",
                                 !.params = p,
                                 !.data = IF p.useCache THEN CacheGet(c, p) ELSE Undefined,
                                 !.loading = ~p.useCache \/ ~CacheHas(c, p),
                                 !.error = Undefined,
                                 !.seed = Some(seed)])

\* A first render that does not look at the cache.
MountHookUnseeded(call, c, seed) ==
    LET p == Params(call)
        h == [NoHook EXCEPT !.phase = "mounted", !.params = p,
                            !.data = Undefined, !.loading = TRUE,
                            !.error = Undefined, !.seed = Some(seed)]
    IN  IF p.runInFuture = FALSE THEN FetchData(h) ELSE h

\* The body of the hook on its first render, and its effect.
MountHook(call, c, seed) ==
    LET p == Params(call)
        h == [NoHook EXCEPT !.phase = "mounted",
                            !.params = p,
                            !.data = IF p.useCache THEN CacheGet(c, p) ELSE Undefined,
                            !.loading = ~p.useCache \/ ~CacheHas(c, p),
                            !.error = Undefined,
                            !.seed = Some(seed)]
    IN  IF p.runInFuture = FALSE THEN FetchData(h) ELSE h

\* ------------------------------------------------------------------ actions

RECURSIVE SumCalls(_, _)
SumCalls(hs, I) ==
    IF I = {} THEN 0
    ELSE LET i == CHOOSE x \in I : TRUE
         IN  hs[i].calls + SumCalls(hs, I \ {i})

\* Transport invocations of all instances.
TotalCalls == SumCalls(hooks, Inst)

\* Another instance that shares the cache entry of p has finished a sequence
\* with success, runs none, and the entry is in the cache.
SettledPeer(i, p) ==
    \E j \in Inst \ {i} :
        /\ hooks[j].phase # "idle"
        /\ hooks[j].params.kind = p.kind
        /\ hooks[j].params.key = p.key
        /\ hooks[j].params.useCache
        /\ ~Running(hooks[j])
        /\ hooks[j].lastResult # Undefined
        /\ CacheHas(cache, p)

\* A component calls the hook and renders for the first time.
Mount(i, call) ==
    LET h == MountHook(call, cache, Undefined)
    IN  /\ hooks[i].phase = "idle"
        /\ hooks' = [hooks EXCEPT ![i] =
                        [h EXCEPT !.seed = Some([ call |-> call,
                                                  data |-> h.data, loading |-> h.loading,
                                                  error |-> h.error,
                                                  cacheHad |-> CacheHas(cache, h.params),
                                                  cacheValue |-> CacheGet(cache, h.params),
                                                  settledPeer |-> SettledPeer(i, h.params),
                                                  totalCalls |-> TotalCalls ])]]
        /\ UNCHANGED cache

\* The consumer calls refetch() (or fetch()).
Refetch(i) ==
    /\ hooks[i].phase = "mounted"
    /\ hooks[i].refetches < MaxRefetch
    /\ hooks' = [hooks EXCEPT ![i] =
                    FetchData([@ EXCEPT !.refetches = @ + 1, !.disturbed = TRUE])]
    /\ UNCHANGED cache

\* abort() that cancels nothing.
AbortHookIdle(h) == h

\* abort() that also publishes loading = false.
AbortHookStopsLoading(h) ==
    LET a == h.controllerRef
        h1 == SetLoading(AbortController(h, a), FALSE)
    IN  IF a # 0 /\ InFlight(h, a) THEN [h1 EXCEPT !.atts[a].manual = TRUE] ELSE h1

\* abort(): controllerRef.current?.abort()
AbortHook(h) ==
    LET a == h.controllerRef
        h1 == AbortController(h, a)
    IN  IF a # 0 /\ InFlight(h, a) THEN [h1 EXCEPT !.atts[a].manual = TRUE] ELSE h1

\* The consumer calls abort().
Abort(i) ==
    /\ hooks[i].phase = "mounted"
    /\ hooks[i].aborts < MaxAborts
    /\ hooks' = [hooks EXCEPT ![i] =
                    AbortHook([@ EXCEPT !.aborts = @ + 1, !.disturbed = TRUE])]
    /\ UNCHANGED cache

\* The component unmounts: the effect's cleanup runs.
Unmount(i) ==
    /\ hooks[i].phase = "mounted"
    /\ hooks' = [hooks EXCEPT ![i] =
                    [Cleanup(@) EXCEPT !.phase = "unmounted", !.disturbed = TRUE]]
    /\ UNCHANGED cache

\* debounceTime passes: every pending debounce timer becomes due.
Tick ==
    /\ \E i \in Inst : \E k \in 1..Len(hooks[i].debounceTimers) : ~hooks[i].debounceTimers[k]
    /\ hooks' = [i \in Inst |->
                    [hooks[i] EXCEPT !.debounceTimers = [k \in 1..Len(@) |-> TRUE],
                                     !.quiet = TRUE]]
    /\ UNCHANGED cache

\* The k-th pending debounce timer is taken off the timer list to run.
TakeDebounceTimer(h, k) ==
    [h EXCEPT !.debounceTimers = SubSeq(@, 1, k - 1) \o SubSeq(@, k + 1, Len(@)),
              !.debounceTimerRef = IF k = Len(h.debounceTimers) /\ @ = "pending"
                                   THEN "stale" ELSE @,
              !.fires = @ + 1,
              !.earlyFire = @ \/ ~h.quiet]

\* A debounce timer that is due fires and its callback runs.
DebounceElapse(i, k, cap) ==
    /\ k \in 1..Len(hooks[i].debounceTimers)
    /\ hooks[i].debounceTimers[k]
    /\ CacheHit(hooks[i], cache) \/ hooks[i].calls < cap
    /\ hooks' = [hooks EXCEPT ![i] = DebounceCallback(TakeDebounceTimer(@, k), cache)]
    /\ UNCHANGED cache

\* clearTimeout(timeoutId) and its removal from timeoutIds after `await fetch`.
ReleaseTimeout(h, a) == [ClearTimeout(h, a) EXCEPT !.timeoutIds = @ \ {a}]

\* The continuation after `await fetch(...)` resolved.
AfterFetch(h, s, response) ==
    LET h1 == ReleaseTimeout(h, h.seqs[s].cur)
    IN  IF ~response.ok
        THEN Catch(h1, s, HttpError(response))
        ELSE [h1 EXCEPT !.seqs[s].pc = "json"]

\* The transport resolves the fetch promise of sequence s with a response.
FetchResolve(i, s, response) ==
    /\ s \in 1..Len(hooks[i].seqs)
    /\ hooks[i].seqs[s].pc = "fetch"
    /\ hooks' = [hooks EXCEPT ![i] = AfterFetch(@, s, response)]
    /\ UNCHANGED cache

\* What a promise of attempt a may reject with: the failures of its own
\* work and, once the controller is aborted, the abort.
Rejections(h, a, own) == own \cup (IF h.atts[a].aborted THEN {AbortError} ELSE {})

\* The transport rejects the fetch promise of sequence s.
FetchReject(i, s, err) ==
    /\ s \in 1..Len(hooks[i].seqs)
    /\ hooks[i].seqs[s].pc = "fetch"
    /\ err \in Rejections(hooks[i], hooks[i].seqs[s].cur, {NetworkError, NonError})
    /\ hooks' = [hooks EXCEPT ![i] = Catch(@, s, err)]
    /\ UNCHANGED cache

\* The continuation after `await response.json()` resolved.
AfterJson(h, s, json) ==
    IF HasErrors(h.params, json)
    THEN Catch(h, s, GraphQLError(json))
    ELSE Succeed(h, s, json)

\* response.json() of sequence s resolves with a decoded body.
JsonResolve(i, s, json) ==
    /\ s \in 1..Len(hooks[i].seqs)
    /\ hooks[i].seqs[s].pc = "json"
    /\ json \in JsonBodies(hooks[i].params.kind)
    /\ hooks' = [hooks EXCEPT ![i] = AfterJson(@, s, json)]
    /\ cache' = IF HasErrors(hooks[i].params, json) THEN cache
                ELSE WriteCache(cache, hooks[i].params, json)

\* response.json() of sequence s rejects.
JsonReject(i, s, err) ==
    /\ s \in 1..Len(hooks[i].seqs)
    /\ hooks[i].seqs[s].pc = "json"
    /\ err \in Rejections(hooks[i], hooks[i].seqs[s].cur, {SyntaxError})
    /\ hooks' = [hooks EXCEPT ![i] = Catch(@, s, err)]
    /\ UNCHANGED cache

\* The continuation after the retry delay: the finally block, then the next
\* iteration of the loop.
AfterDelay(h, s) == StartAttempt(Finally(h), s)

\* The retry-delay timer of sequence s fires.
RetryDelayElapse(i, s, cap) ==
    /\ s \in 1..Len(hooks[i].seqs)
    /\ hooks[i].seqs[s].pc = "delay"
    /\ hooks[i].calls < cap
    /\ hooks' = [hooks EXCEPT ![i] = AfterDelay(@, s)]
    /\ UNCHANGED cache

\* The timeout timer of attempt a fires: controller.abort(). Every attempt
\* of an instance sets its timer to the same delay, so the timers fire in the
\* order they were set.
TimeoutElapse(i, a) ==
    /\ a \in 1..Len(hooks[i].atts)
    /\ hooks[i].atts[a].timer = "pending"
    /\ \A b \in 1..(a - 1) : hooks[i].atts[b].timer # "pending"
    /\ hooks' = [hooks EXCEPT ![i] = [AbortController(@, a) EXCEPT !.atts[a].timer = "fired"]]
    /\ UNCHANGED cache

\* ----------------------------------------------------------- specifications

\* Sequences and debounce timers an instance can have.
Slots == 1..(MaxRefetch + 1)

ThrownValues == {NetworkError, NonError, AbortError, SyntaxError}
AllBodies == JsonBodies("fetch") \cup JsonBodies("graphql")

\* The hook calls the components make.
FetchCalls(configs, retries) ==
    { [hook |-> "useFetch", url |-> "/data", config |-> With(c, "retries", r)] :
        c \in configs, r \in retries }

GraphQLCalls(caching, retries) ==
    { [hook |-> "useGraphQL", url |-> "/graphql", query |-> "{ hello }",
       config |-> [retries |-> r, useCache |-> u]] : r \in retries, u \in caching }

MainCalls ==
    FetchCalls({<<>>, [useCache |-> TRUE]}, {0, 1}) \cup GraphQLCalls({TRUE}, {0, 1})

RetryCalls ==
    FetchCalls({<<>>, [useCache |-> TRUE]}, 0..MaxRetries)
    \cup GraphQLCalls({FALSE}, 0..MaxRetries)

Init ==
    /\ hooks = [i \in Inst |-> NoHook]
    /\ cache = [fetch |-> <<>>, graphql |-> <<>>]

\* What the timers and the transport of instance i may do, the instance
\* making at most cap transport invocations.
Settle(i, cap) ==
    \/ \E k \in Slots : DebounceElapse(i, k, cap)
    \/ \E s \in Slots :
        \/ \E response \in Responses : FetchResolve(i, s, response)
        \/ \E err \in ThrownValues : FetchReject(i, s, err)
        \/ \E json \in AllBodies : JsonResolve(i, s, json)
        \/ \E err \in ThrownValues : JsonReject(i, s, err)
        \/ RetryDelayElapse(i, s, cap)
    \/ \E a \in 1..cap : TimeoutElapse(i, a)

\* One component, which may refetch, abort and unmount at any time.
Next ==
    \/ Tick
    \/ \E call \in MainCalls : Mount(1, call)
    \/ Refetch(1)
    \/ Abort(1)
    \/ Unmount(1)
    \/ Settle(1, MaxCalls)

Spec == Init /\ [][Next]_vars

\* One component that the consumer leaves alone: every sequence runs to its
\* end.
NextRetry ==
    \/ Tick
    \/ \E call \in RetryCalls : Mount(1, call)
    \/ Settle(1, MaxRetries + 1)

SpecRetry == Init /\ [][NextRetry]_vars

\* Two components that call useFetch with caching enabled.
SharedCalls ==
    { [hook |-> "useFetch", url |-> u, config |-> [useCache |-> TRUE, retries |-> r]] :
        u \in {"/data", "/other"}, r \in {0, 1} }

\* What instance i may still invoke when the instances together make at most
\* MaxCalls transport invocations.
SharedCap(i) == hooks[i].calls + MaxCalls - TotalCalls

\* The consumers may refetch; the transport answers, or fails with a network
\* error, before any timeout. Component 1 renders first.
NextShared ==
    \/ Tick
    \/ \E i \in Inst :
        \/ \E call \in SharedCalls :
            /\ \A j \in Inst : j < i => hooks[j].phase # "idle"
            /\ Mount(i, call)
        \/ Refetch(i)
        \/ \E k \in Slots : DebounceElapse(i, k, SharedCap(i))
        \/ \E s \in Slots :
            \/ \E response \in Responses : FetchResolve(i, s, response)
            \/ FetchReject(i, s, NetworkError)
            \/ \E json \in JsonBodies("fetch") : JsonResolve(i, s, json)
            \/ RetryDelayElapse(i, s, SharedCap(i))

SpecShared == Init /\ [][NextShared]_vars

\* The configurations of method, body, caching and followConventions a
\* caller can pass to useFetch and to the method-bound wrappers.
MethodConfigs(methods) ==
    { Join4(m, b, u, f) :
        m \in {<<>>} \cup { [method |-> x] : x \in methods },
        b \in {<<>>, [body |-> "payload"], [body |-> ""]},
        u \in {<<>>, [useCache |-> TRUE]},
        f \in {<<>>, [followConventions |-> FALSE]} }

ConfigCalls ==
    { [hook |-> "useFetch", url |-> "/data", config |-> With(c, "retries", 0)] :
        c \in MethodConfigs(Methods) }
    \cup { [hook |-> w, url |-> "/data", config |-> With(c, "retries", 0)] :
            w \in DOMAIN WrapperMethod, c \in MethodConfigs({"GET", "POST"}) }

\* One component with any of these configurations; the consumer may refetch,
\* the transport answers or fails before any timeout.
NextConfig ==
    \/ Tick
    \/ \E call \in ConfigCalls : Mount(1, call)
    \/ Refetch(1)
    \/ \E k \in Slots : DebounceElapse(1, k, MaxCalls)
    \/ \E s \in Slots :
        \/ \E response \in Responses : FetchResolve(1, s, response)
        \/ FetchReject(1, s, NetworkError)
        \/ \E json \in JsonBodies("fetch") : JsonResolve(1, s, json)

SpecConfig == Init /\ [][NextConfig]_vars

\* Two components that share a url, with any combination of method, caching
\* and followConventions, or that call useGraphQL.
SeedCalls ==
    { [hook |-> "useFetch", url |-> "/data",
       config |-> With(Join4(m, u, f, <<>>), "retries", 0)] :
        m \in {<<>>, [method |-> "PUT"]},
        u \in {<<>>, [useCache |-> TRUE]},
        f \in {<<>>, [followConventions |-> FALSE]} }
    \cup GraphQLCalls({TRUE, FALSE}, {0})

\* Component 1 renders first; the consumer of component 2 may refetch; the
\* transport answers before any timeout.
NextSeed ==
    \/ Tick
    \/ Refetch(2)
    \/ \E i \in Inst :
        \/ \E call \in SeedCalls :
            /\ \A j \in Inst : j < i => hooks[j].phase # "idle"
            /\ Mount(i, call)
        \/ \E k \in Slots : DebounceElapse(i, k, SharedCap(i))
        \/ \E s \in Slots :
            \/ \E response \in Responses : FetchResolve(i, s, response)
            \/ \E json \in AllBodies : JsonResolve(i, s, json)

SpecSeed == Init /\ [][NextSeed]_vars

\* One component in deferred-start mode or not; the consumer may call fetch()
\* (the same function as refetch()); the transport answers, or fails with a
\* network error, before any timeout.
FutureCalls ==
    { [hook |-> "useFetch", url |-> "/data",
       config |-> With(Join4(f, u, <<>>, <<>>), "retries", r)] :
        f \in {<<>>, [runInFuture |-> TRUE], [runInFuture |-> FALSE]},
        u \in {<<>>, [useCache |-> TRUE]},
        r \in {0, 1} }

NextFuture ==
    \/ Tick
    \/ \E call \in FutureCalls : Mount(1, call)
    \/ Refetch(1)
    \/ \E k \in Slots : DebounceElapse(1, k, MaxCalls)
    \/ \E s \in Slots :
        \/ \E response \in Responses : FetchResolve(1, s, response)
        \/ FetchReject(1, s, NetworkError)
        \/ \E json \in JsonBodies("fetch") : JsonResolve(1, s, json)
        \/ RetryDelayElapse(1, s, MaxCalls)

SpecFuture == Init /\ [][NextFuture]_vars

\* A GraphQL server that answers every request with an ok response whose body
\* lists errors; the consumer leaves the component alone.
ErrorBodies == {json \in JsonBodies("graphql") : "errors" \in DOMAIN json /\ json.errors # <<>>}

NextErrors ==
    \/ Tick
    \/ \E call \in GraphQLCalls({TRUE, FALSE}, 0..MaxRetries) : Mount(1, call)
    \/ \E k \in Slots : DebounceElapse(1, k, MaxRetries + 1)
    \/ \E s \in Slots :
        \/ \E response \in {r \in Responses : r.ok} : FetchResolve(1, s, response)
        \/ \E json \in ErrorBodies : JsonResolve(1, s, json)
        \/ RetryDelayElapse(1, s, MaxRetries + 1)
        \/ \E a \in 1..(MaxRetries + 1) : TimeoutElapse(1, a)

SpecErrors == Init /\ [][NextErrors]_vars

\* The variables objects the components pass: none, and objects with the
\* keys a and b written in either order.
VariableObjects ==
    { <<>>,
      << <<"a", "1">> >>,
      << <<"a", "2">> >>,
      << <<"a", "1">>, <<"b", "2">> >>,
      << <<"b", "2">>, <<"a", "1">> >>,
      << <<"b", "1">>, <<"a", "2">> >> }

KeyCalls ==
    { [hook |-> "useGraphQL", url |-> u, query |-> q,
       config |-> IF v = <<>> THEN [retries |-> 0, useCache |-> TRUE]
                  ELSE [retries |-> 0, useCache |-> TRUE, variables |-> v]] :
        u \in {"/graphql", "/v2/graphql"}, q \in {"{ hello }", "{ user }"},
        v \in VariableObjects }

\* Two components that call useGraphQL with caching enabled; component 1
\* renders first; the server answers every request with data.
NextKey ==
    \/ Tick
    \/ \E i \in Inst :
        \/ \E call \in KeyCalls :
            /\ \A j \in Inst : j < i => hooks[j].phase # "idle"
            /\ Mount(i, call)
        \/ \E k \in Slots : DebounceElapse(i, k, SharedCap(i))
        \/ \E s \in Slots :
            \/ \E response \in {r \in Responses : r.ok} : FetchResolve(i, s, response)
            \/ \E json \in {b \in JsonBodies("graphql") : ~("errors" \in DOMAIN b)} :
                    JsonResolve(i, s, json)

SpecKey == Init /\ [][NextKey]_vars

\* One component whose consumer may refetch and abort at any time,
\* with no limit on the transport invocations other than the one the retry
\* loops set themselves: each of the at most MaxRefetch + 1 sequences makes at
\* most retries + 1 <= 2 attempts.
LiveCalls == FetchCalls({<<>>}, {0, 1})

LiveCap == (MaxRefetch + 1) * 2

\* What the timers and the transport may do: the transport answers with a
\* status, fails with a network error, or rejects with the abort once the
\* controller is canceled; a body is decoded or not.
LiveSettle(i) ==
    \/ \E k \in Slots : DebounceElapse(i, k, LiveCap)
    \/ \E s \in Slots :
        \/ \E response \in Responses : FetchResolve(i, s, response)
        \/ \E err \in {NetworkError, AbortError} : FetchReject(i, s, err)
        \/ JsonResolve(i, s, [message |-> "Success"])
        \/ JsonReject(i, s, SyntaxError)
        \/ RetryDelayElapse(i, s, LiveCap)
    \/ \E a \in 1..LiveCap : TimeoutElapse(i, a)

NextLive ==
    \/ Tick
    \/ \E call \in LiveCalls : Mount(1, call)
    \/ Refetch(1)
    \/ Abort(1)
    \/ LiveSettle(1)

\* Timers fire and the transport settles: a debounce delay that can pass
\* does pass, and a timer that is due or a promise that is pending does not
\* stay so forever. The consumer is under no obligation.
SpecLive == Init /\ [][NextLive]_vars /\ WF_vars(Tick) /\ WF_vars(LiveSettle(1))

\* A GraphQL server that answers every request with an ok response whose body
\* has data and an errors list that is empty; the consumer leaves the
\* component alone.
EmptyErrorsBodies ==
    {json \in JsonBodies("graphql") : "errors" \in DOMAIN json /\ json.errors = <<>>}

NextEmptyErrors ==
    \/ Tick
    \/ \E call \in GraphQLCalls({TRUE, FALSE}, 0..MaxRetries) : Mount(1, call)
    \/ \E k \in Slots : DebounceElapse(1, k, MaxRetries + 1)
    \/ \E s \in Slots :
        \/ \E response \in {r \in Responses : r.ok} : FetchResolve(1, s, response)
        \/ \E json \in EmptyErrorsBodies : JsonResolve(1, s, json)
        \/ RetryDelayElapse(1, s, MaxRetries + 1)
        \/ \E a \in 1..(MaxRetries + 1) : TimeoutElapse(1, a)

SpecEmptyErrors == Init /\ [][NextEmptyErrors]_vars

\* ------------------------------------------------------- retry sequences

\* The only sequence of an instance the consumer has left alone has ended.
RanAlone(h) ==
    /\ h.phase = "mounted"
    /\ ~h.disturbed
    /\ Len(h.seqs) = 1
    /\ h.seqs[1].pc = "done"

ExpectedMessages(p, thrown) ==
    IF ~thrown.isError THEN {"An unknown error occurred"}
    ELSE IF thrown.name = "Error"
         THEN (IF p.kind = "fetch" THEN {"Error: 500 Internal Server Error"}
               ELSE {"Error: 500 Internal Server Error", "e1; e2", ""})
         ELSE {thrown.message}

\* C2: on a freshly mounted instance without a cache entry that the consumer
\* leaves alone, retries + 1 consecutive failed attempts make exactly
\* retries + 1 transport invocations and end with loading = false, data
\* unset and error = the message of the last failed attempt.
RetriesExhausted ==
    \A i \in Inst :
        LET h == hooks[i]
        IN  (RanAlone(h) /\ h.lastResult = Undefined)
            => /\ h.seqs[1].attempt = h.params.retries + 1
               /\ h.calls = h.params.retries + 1
               /\ h.loading = FALSE
               /\ h.data = Undefined
               /\ h.lastThrown # Undefined
               /\ h.error # Undefined
               /\ h.error[1] \in ExpectedMessages(h.params, h.lastThrown[1])

\* Witness of C2: MaxRetries + 1 failures, the last one an HTTP failure.
RetriesExhaustedReached ==
    \E i \in Inst :
        /\ RanAlone(hooks[i])
        /\ hooks[i].params.retries = MaxRetries
        /\ hooks[i].calls = MaxRetries + 1
        /\ hooks[i].lastResult = Undefined
        /\ hooks[i].error = Some("Error: 500 Internal Server Error")

\* ------------------------------------------------------------ shared cache

\* Instance j was mounted after an instance with the same fingerprint and
\* caching enabled had settled successfully.
MountedAfterSettledPeer(j) ==
    /\ hooks[j].phase # "idle"
    /\ hooks[j].params.useCache
    /\ hooks[j].seed[1].settledPeer

\* C3 as stated: ... and the transport is invoked exactly once across both
\* instances.
CacheSharedExactlyOneCall ==
    \A j \in Inst :
        MountedAfterSettledPeer(j)
        => /\ hooks[j].seed[1].data = CacheGet(cache, hooks[j].params)
           /\ hooks[j].calls = 0
           /\ TotalCalls = 1

\* C3, amended: the second instance has data = the cached body and
\* loading = false already in its initial state, it never invokes the
\* transport, and the transport is invoked no more after its mount: the
\* invocations across both instances are those the first instance made
\* before it settled (one if its first attempt succeeded, more after
\* retries).
CacheSharedNoFurtherCall ==
    \A j \in Inst :
        MountedAfterSettledPeer(j)
        => /\ hooks[j].seed[1].data = CacheGet(cache, hooks[j].params)
           /\ hooks[j].seed[1].data # Undefined
           /\ hooks[j].seed[1].loading = FALSE
           /\ hooks[j].data = hooks[j].seed[1].data
           /\ hooks[j].calls = 0
           /\ Len(hooks[j].seqs) = 0
           /\ TotalCalls = hooks[j].seed[1].totalCalls
           /\ TotalCalls >= 1

\* Witness of C3: the second instance has been through its mount-time
\* debounce and a refetch, both served from the cache.
CacheSharedReached ==
    \E j \in Inst :
        /\ MountedAfterSettledPeer(j)
        /\ hooks[j].fires = 2
        /\ hooks[j].refetches = 1
        /\ TotalCalls = 1

\* ----------------------------------------------------------------- debounce

\* C4 as stated, first half: the transport is never invoked before
\* debounceTime has elapsed since the most recent trigger.
NoCallBeforeQuiet ==
    [][\A i \in Inst : hooks'[i].calls > hooks[i].calls => hooks[i].quiet]_vars

\* C4, amended: debounce is trailing-edge. No retry sequence is started (and
\* no cache lookup is made) before debounceTime has elapsed since the most
\* recent trigger; a trigger replaces the pending timer, so at most one timer
\* is pending and a burst of triggers causes exactly one run of the debounce
\* callback. Retry attempts of a sequence that is already running are not
\* held back by a later trigger.
DebounceTrailingEdge ==
    \A i \in Inst :
        LET h == hooks[i]
        IN  /\ Len(h.debounceTimers) <= 1
            /\ ~h.earlyFire
            /\ h.fires <= h.bursts
            /\ h.phase = "mounted" => h.fires + Len(h.debounceTimers) = h.bursts
            /\ Len(h.seqs) <= h.fires

\* Witness of C4: a burst of two triggers (mount, then refetch before the
\* timer was due) has caused one run of the callback.
DebounceBurstReached ==
    \E i \in Inst :
        /\ hooks[i].phase = "mounted"
        /\ hooks[i].refetches = 1
        /\ hooks[i].bursts = 1
        /\ hooks[i].fires = 1
        /\ hooks[i].calls = 1
        /\ hooks[i].debounceTimers = <<>>

\* ------------------------------------------------------ unmount and abort

\* The published state of an instance.
Published(h) == <<h.data, h.loading, h.error>>

\* C5 as stated: after unmount no setData, setLoading or setError of the
\* instance is made, so its published state never changes again.
NoPublishAfterUnmount ==
    [][\A i \in Inst :
        hooks[i].phase = "unmounted" => Published(hooks'[i]) = Published(hooks[i])]_vars

\* C6 as stated: the settlement of an attempt that abort() canceled while it
\* was in flight changes nothing of data, loading and error.
AbortedSettlementSilent ==
    [][\A i \in Inst : \A s \in 1..Len(hooks[i].seqs) :
        LET h == hooks[i]
            q == h.seqs[s]
        IN  (/\ q.pc \in {"fetch", "json"}
             /\ h.atts[q.cur].manual
             /\ hooks'[i].seqs[s] # q)
            => Published(hooks'[i]) = Published(h)]_vars

\* C7 as stated: after abort() canceled an attempt in flight, cancellation of
\* that attempt's handle is not invoked again, neither by the next attempt's
\* superseding cancel nor by the attempt's own timeout timer.
CancelInvokedOnce ==
    [][\A i \in Inst : \A a \in 1..Len(hooks[i].atts) :
        LET h == hooks[i]
        IN  h.atts[a].manual
            => /\ ~(h.atts[a].timer = "pending" /\ hooks'[i].atts[a].timer = "fired")
               /\ ~(h.controllerRef = a /\ hooks'[i].controllerRef # a)]_vars

\* C7, amended: abort() cancels the handle of the attempt in flight: after
\* the call every attempt in flight has a canceled handle, and a canceled
\* handle stays canceled, so the cancellation signal of the attempt fires
\* once. abort() of the same handle may be called again (by the next
\* attempt's superseding cancel, by the attempt's own timeout timer, which a
\* rejected fetch leaves pending, or by the cleanup) and then has no effect.
AbortCancelsInFlight ==
    [][\A i \in Inst : \A a \in 1..Len(hooks[i].atts) :
        LET h == hooks[i]
            g == hooks'[i]
        IN  /\ h.atts[a].aborted => g.atts[a].aborted
            /\ (g.aborts > h.aborts /\ InFlight(h, a)) => g.atts[a].aborted
            /\ (g.aborts > h.aborts /\ InFlight(h, a) /\ ~h.atts[a].aborted)
                => g.atts[a].manual
            /\ g.atts[a].manual => g.atts[a].aborted]_vars

\* Witness of C7: an attempt that abort() canceled in flight has been
\* rejected, its timeout timer has fired later, and the sequence has gone on
\* to a next attempt.
AbortThenTimerReached ==
    \E i \in Inst : \E a \in 1..Len(hooks[i].atts) :
        /\ hooks[i].atts[a].manual
        /\ hooks[i].atts[a].aborted
        /\ hooks[i].atts[a].timer = "fired"
        /\ Len(hooks[i].atts) > a

\* Attempts in flight whose handle is not canceled.
Live(h) == {a \in 1..Len(h.atts) : InFlight(h, a) /\ ~h.atts[a].aborted}

\* C8: for each instance at most one attempt with a handle that is not
\* canceled is in flight, and it is the one controllerRef holds: every
\* attempt started before the latest one has a canceled handle.
AtMostOneLiveAttempt ==
    \A i \in Inst :
        LET h == hooks[i]
        IN  /\ Cardinality(Live(h)) <= 1
            /\ Live(h) \subseteq {h.controllerRef}
            /\ \A a \in 1..(Len(h.atts) - 1) : h.atts[a].aborted

\* Witness of C8: two sequences overlap after a refetch, each with an attempt
\* in flight, the older one canceled.
OverlappingAttemptsReached ==
    \E i \in Inst :
        LET h == hooks[i]
        IN  /\ Len(h.seqs) = 2
            /\ h.seqs[1].pc = "fetch" /\ h.seqs[2].pc = "fetch"
            /\ h.seqs[1].cur # h.seqs[2].cur
            /\ Cardinality(Live(h)) = 1

\* ---------------------------------------------------------------- loading

\* C9 as stated: loading = false with error set means the most recent retry
\* sequence has used all retries + 1 attempts and ended.
LoadingFalseErrorTerminal ==
    \A i \in Inst :
        LET h == hooks[i]
        IN  (h.phase = "mounted" /\ h.loading = FALSE /\ h.error # Undefined)
            => /\ Len(h.seqs) > 0
               /\ h.seqs[Len(h.seqs)].pc = "done"
               /\ h.seqs[Len(h.seqs)].attempt = h.params.retries + 1

\* ----------------------------------------------------------------- method

\* The method the call configures: the wrapper's own, or config.method.
ExpectedMethod(call) ==
    IF call.hook = "useFetch"
    THEN Get(call.config, "method", DEFAULT_HTTP_METHOD)
    ELSE WrapperMethod[call.hook]

\* C10 as stated: the request the transport receives carries the configured
\* method, and a wrapper's request carries the wrapper's method.
RequestCarriesMethod ==
    \A i \in Inst :
        (hooks[i].lastReq # Undefined /\ hooks[i].params.kind = "fetch")
        => TransportMethod(hooks[i].lastReq[1]) = ExpectedMethod(hooks[i].seed[1].call)

\* ----------------------------------------------------------------- GraphQL

\* C11: in useGraphQL, when every attempt of the sequence gets an ok response
\* whose body has a non-empty errors list, the sequence makes retries + 1
\* attempts and ends with loading = false, no data published, no cache entry
\* written and error = the messages of all entries of the last attempt's
\* errors list, joined with "; ".
GraphQLErrorsFail ==
    \A i \in Inst :
        LET h == hooks[i]
        IN  (RanAlone(h) /\ h.params.kind = "graphql")
            => /\ h.calls = h.params.retries + 1
               /\ h.loading = FALSE
               /\ h.data = Undefined
               /\ ~CacheHas(cache, h.params)
               /\ h.error = Some("e1; e2")

\* Witness of C11: a caching useGraphQL instance has used a retry and ended.
GraphQLErrorsFailReached ==
    \E i \in Inst :
        /\ RanAlone(hooks[i])
        /\ hooks[i].params.kind = "graphql"
        /\ hooks[i].params.useCache
        /\ hooks[i].params.retries = 1
        /\ hooks[i].calls = 2

\* ------------------------------------------------------------ initial state

\* C12: the first render publishes loading = false and data = the cached
\* value exactly when caching is enabled after the normalization of the
\* config and the cache holds an entry for the fingerprint; otherwise it
\* publishes loading = true and no data; error is unset in every case.
InitialStateSeeded ==
    \A i \in Inst :
        hooks[i].phase # "idle"
        => LET sd == hooks[i].seed[1]
               hit == hooks[i].params.useCache /\ sd.cacheHad
           IN  /\ sd.loading = ~hit
               /\ sd.data = (IF hit THEN sd.cacheValue ELSE Undefined)
               /\ hit => sd.data # Undefined
               /\ sd.error = Undefined

\* Witness of C12: one component rendered first with the cache entry present
\* and caching enabled, another with the entry present and caching off.
InitialStateSeededReached ==
    /\ hooks[1].phase # "idle" /\ hooks[2].phase # "idle"
    /\ hooks[2].seed[1].cacheHad
    /\ hooks[2].params.useCache
    /\ hooks[2].seed[1].loading = FALSE
    /\ hooks[2].seed[1].data = Some([message |-> "Cached Data"])
    /\ ~hooks[1].seed[1].cacheHad
    /\ hooks[1].seed[1].loading = TRUE

\* C13: when the debounce timer of an instance with caching enabled fires and
\* the cache holds an entry for its fingerprint, the callback publishes
\* data = the cached value and loading = false, starts no retry sequence and
\* does not invoke the transport; the cache is left as it is. The trigger may
\* be the mount or a refetch() of a settled instance.
CacheHitPublishes ==
    [][\A i \in Inst :
        LET h == hooks[i]
            g == hooks'[i]
        IN  (/\ g.fires = h.fires + 1
             /\ h.params.useCache
             /\ h.params.key \in DOMAIN cache[h.params.kind])
            => /\ g.data = cache[h.params.kind][h.params.key]
               /\ g.loading = FALSE
               /\ g.seqs = h.seqs
               /\ g.calls = h.calls
               /\ cache' = cache]_vars

\* Witness of C13: a component that rendered before the entry was cached has
\* its data from the cache alone, after its mount-time debounce and after a
\* refetch.
CacheHitPublishesReached ==
    \E i \in Inst :
        /\ hooks[i].phase = "mounted"
        /\ ~hooks[i].seed[1].cacheHad
        /\ hooks[i].params.useCache
        /\ hooks[i].fires = 2 /\ hooks[i].refetches = 1
        /\ hooks[i].calls = 0 /\ hooks[i].seqs = <<>>
        /\ hooks[i].data # Undefined /\ hooks[i].loading = FALSE

\* ------------------------------------------------------------- conventions

\* The call asks useFetch, or a wrapper, to cache with a method outside
\* CACHE_ALLOWED_METHOD.
CachingNotAllowed(call) ==
    /\ call.hook # "useGraphQL"
    /\ Get(call.config, "useCache", FALSE)
    /\ ExpectedMethod(call) \notin {"GET", "HEAD", "POST"}

\* C14: an instance that asks for caching with a method outside GET, HEAD,
\* POST, with followConventions on (the default), renders unseeded even when
\* the cache holds an entry for its url, starts a retry sequence at every
\* debounce callback, and none of its steps changes the cache. With
\* followConventions = false the same instance is seeded from the cache,
\* takes the cache-hit path when an entry exists and writes its result to the
\* cache on success.
NonCacheableMethod ==
    [][\A i \in Inst :
        LET h == hooks[i]
            g == hooks'[i]
        IN  (g.phase # "idle" /\ CachingNotAllowed(g.seed[1].call))
            => IF Get(g.seed[1].call.config, "followConventions", TRUE)
               THEN /\ g.seed[1].data = Undefined /\ g.seed[1].loading = TRUE
                    /\ g.fires > h.fires => Len(g.seqs) = Len(h.seqs) + 1
                    /\ g # h => cache' = cache
               ELSE /\ g.seed[1].data = g.seed[1].cacheValue
                    /\ g.seed[1].loading = ~g.seed[1].cacheHad
                    /\ (g.fires > h.fires /\ "/data" \in DOMAIN cache.fetch)
                        => g.seqs = h.seqs /\ g.data = cache.fetch["/data"]
                    /\ \A s \in 1..Len(h.seqs) :
                        (/\ h.seqs[s].pc = "json" /\ g.seqs[s].pc = "done"
                         /\ g.seqs[s].attempt = h.seqs[s].attempt)
                        => /\ "/data" \in DOMAIN cache'.fetch
                           /\ cache'.fetch["/data"] = g.data]_vars

\* Witness of C14: a PUT instance that asks for caching with followConventions
\* on rendered with the entry of its url in the cache and has fetched with
\* success.
NonCacheableMethodReached ==
    \E i \in Inst :
        /\ hooks[i].phase = "mounted"
        /\ CachingNotAllowed(hooks[i].seed[1].call)
        /\ Get(hooks[i].seed[1].call.config, "followConventions", TRUE)
        /\ hooks[i].seed[1].cacheHad
        /\ hooks[i].lastResult # Undefined
        /\ hooks[i].data # CacheGet(cache, hooks[i].params)

\* C15 as stated: with followConventions on, every request of an instance
\* configured with method HEAD and a body carries no body and the notice is
\* emitted; with followConventions = false the body is sent as configured.
HeadBodyStripped ==
    \A i \in Inst :
        LET h == hooks[i]
        IN  (/\ h.lastReq # Undefined
             /\ h.params.kind = "fetch"
             /\ ExpectedMethod(h.seed[1].call) = "HEAD"
             /\ "body" \in DOMAIN h.seed[1].call.config)
            => IF Get(h.seed[1].call.config, "followConventions", TRUE)
               THEN "body" \notin DOMAIN h.lastReq[1] /\ "head-body" \in h.params.warned
               ELSE /\ "body" \in DOMAIN h.lastReq[1]
                    /\ h.lastReq[1].body = h.seed[1].call.config.body

\* ----------------------------------------------------------- deferred start

\* The instance was configured with runInFuture = true.
Deferred(h) == h.phase # "idle" /\ Get(h.seed[1].call.config, "runInFuture", FALSE)

\* C16: in deferred-start mode the mount sets no debounce timer, and until the
\* consumer calls fetch() or refetch() no timer is pending, no callback runs,
\* the transport is not invoked and the published state stays the initial
\* one. After the call the instance goes through the debounce (one callback
\* per burst, none before the delay has passed), the cache lookup and the
\* retry sequence as an instance started at mount does: a sequence that ends
\* with success leaves data = the body, error unset, loading = false after
\* attempt + 1 invocations, one that ends in failure leaves error set and
\* loading = false after retries + 1 invocations.
DeferredStart ==
    \A i \in Inst :
        LET h == hooks[i]
        IN  Deferred(h)
            => /\ h.bursts <= h.refetches
               /\ h.refetches = 0
                    => /\ h.debounceTimers = <<>> /\ h.debounceTimerRef = "null"
                       /\ h.fires = 0 /\ h.calls = 0 /\ h.seqs = <<>>
                       /\ Published(h) = <<h.seed[1].data, h.seed[1].loading, Undefined>>
               /\ Len(h.debounceTimers) <= 1 /\ ~h.earlyFire
               /\ h.fires + Len(h.debounceTimers) = h.bursts
               /\ (Len(h.seqs) = 1 /\ h.seqs[1].pc = "done")
                    => IF h.lastResult # Undefined
                       THEN /\ h.calls = h.seqs[1].attempt + 1
                            /\ h.data = h.lastResult[1] /\ h.error = Undefined
                            /\ h.loading = FALSE
                       ELSE /\ h.calls = h.params.retries + 1
                            /\ h.data = Undefined /\ h.error # Undefined
                            /\ h.loading = FALSE

\* Witness of C16: a deferred instance has been started by fetch(), has
\* retried once and has ended with success.
DeferredStartReached ==
    \E i \in Inst :
        /\ Deferred(hooks[i])
        /\ hooks[i].refetches = 1
        /\ hooks[i].calls = 2
        /\ hooks[i].seqs[1].pc = "done"
        /\ hooks[i].lastResult # Undefined

\* ----------------------------------------------------------------- recovery

\* C17: after the first retry sequence of an instance has failed terminally
\* (all retries + 1 attempts used), a sequence started by refetch() whose
\* attempt succeeds leaves data = the decoded body, error unset and
\* loading = false.
RefetchRecovers ==
    [][\A i \in Inst :
        LET h == hooks[i]
            g == hooks'[i]
        IN  (/\ h.phase = "mounted"
             /\ Len(h.seqs) = 2
             /\ h.seqs[1].pc = "done"
             /\ h.seqs[1].attempt = h.params.retries + 1
             /\ h.seqs[2].pc = "json"
             /\ g.seqs[2].pc = "done"
             /\ g.seqs[2].attempt = h.seqs[2].attempt)
            => /\ g.lastResult # Undefined
               /\ g.data = g.lastResult[1]
               /\ g.data # Undefined
               /\ g.error = Undefined
               /\ g.loading = FALSE]_vars

\* Witness of C17: the first sequence failed terminally and left its error,
\* the sequence the refetch started has succeeded.
RefetchRecoversReached ==
    \E i \in Inst :
        LET h == hooks[i]
        IN  /\ h.phase = "mounted"
            /\ Len(h.seqs) = 2
            /\ h.seqs[1].pc = "done" /\ h.seqs[1].attempt = h.params.retries + 1
            /\ h.seqs[2].pc = "done" /\ h.seqs[2].attempt = 0
            /\ h.lastThrown # Undefined
            /\ h.data # Undefined /\ h.error = Undefined /\ h.loading = FALSE

\* ------------------------------------------------------ abort and the timers

\* abort() was called while the only sequence of the instance waited for its
\* retry delay: the controller of the attempt that failed with an HTTP status
\* (its timeout timer cleared) is canceled, and not by an abort() in flight.
AbortedInDelay(h, s) ==
    /\ h.phase = "mounted"
    /\ Len(h.seqs) = 1
    /\ h.aborts > 0
    /\ h.seqs[s].pc = "delay"
    /\ h.atts[h.seqs[s].cur].aborted
    /\ ~h.atts[h.seqs[s].cur].manual
    /\ h.atts[h.seqs[s].cur].timer = "cleared"

\* C18 as stated: after an abort() during the retry delay the wait goes on,
\* and the attempt that starts after it has its transport call canceled as it
\* starts.
AbortInDelayCancelsNext ==
    [][\A i \in Inst : \A s \in 1..Len(hooks[i].seqs) :
        (AbortedInDelay(hooks[i], s) /\ hooks'[i].seqs[s].pc # "delay")
        => /\ hooks'[i].seqs[s].pc = "fetch"
           /\ hooks'[i].atts[hooks'[i].seqs[s].cur].aborted]_vars

\* C19: abort() itself changes none of data, loading, error and the response
\* cache: right after the call the four have the values they had before it.
AbortChangesNothing ==
    [][\A i \in Inst :
        hooks'[i].aborts > hooks[i].aborts
        => /\ Published(hooks'[i]) = Published(hooks[i])
           /\ cache' = cache]_vars

\* Witness of C19: abort() has canceled an attempt in flight and the instance
\* still publishes loading = true.
AbortChangesNothingReached ==
    \E i \in Inst : \E a \in 1..Len(hooks[i].atts) :
        /\ hooks[i].aborts = 1
        /\ hooks[i].atts[a].manual
        /\ InFlight(hooks[i], a)
        /\ hooks[i].loading = TRUE

\* C20 as stated: after abort() the active handle is canceled and no debounce
\* timer and no timeout timer of the instance is pending.
AbortClearsTimers ==
    [][\A i \in Inst :
        hooks'[i].aborts > hooks[i].aborts
        => /\ hooks'[i].controllerRef # 0
                => hooks'[i].atts[hooks'[i].controllerRef].aborted
           /\ hooks'[i].debounceTimers = <<>>
           /\ \A a \in 1..Len(hooks'[i].atts) : hooks'[i].atts[a].timer # "pending"]_vars

\* ------------------------------------------------------------------ unmount

\* C21: the unmount cleanup is one step: in the state right after it the
\* instance has no debounce timer, the active cancellation handle (if there is
\* one) is canceled, and no timeout timer of an attempt made so far is pending.
UnmountCleansUp ==
    [][\A i \in Inst :
        LET h == hooks[i]
            g == hooks'[i]
        IN  (h.phase = "mounted" /\ g.phase = "unmounted")
            => /\ g.debounceTimers = <<>>
               /\ g.debounceTimerRef # "pending"
               /\ g.controllerRef = h.controllerRef
               /\ g.controllerRef # 0 => g.atts[g.controllerRef].aborted
               /\ Len(g.atts) = Len(h.atts)
               /\ \A a \in 1..Len(g.atts) : g.atts[a].timer # "pending"]_vars

\* Witness of C21: the component unmounted while the timeout timer of an
\* attempt whose fetch promise had rejected was still pending, with a later
\* attempt in flight: the cleanup cleared both timers.
UnmountCleansUpReached ==
    \E i \in Inst :
        LET h == hooks[i]
        IN  /\ h.phase = "unmounted"
            /\ Len(h.atts) = 2
            /\ h.atts[1].timer = "cleared" /\ 1 \in h.timeoutIds /\ ~InFlight(h, 1)
            /\ h.atts[2].timer = "cleared" /\ 2 \in h.timeoutIds /\ InFlight(h, 2)
            /\ h.controllerRef = 2
            /\ h.atts[2].aborted

\* C24: unmounting cancels the pending debounce timer without any side
\* effect. An unmounted instance has no debounce timer, so no trigger of it
\* reaches the transport later; one that was unmounted before its first
\* debounce delay had passed never invoked the transport, wrote no cache entry
\* and still has the data, loading and error of its first render.
UnmountCancelsDebounce ==
    \A i \in Inst :
        LET h == hooks[i]
        IN  h.phase = "unmounted"
            => /\ h.debounceTimers = <<>>
               /\ h.fires = 0
                  => /\ h.calls = 0 /\ h.seqs = <<>> /\ h.lastReq = Undefined
                     /\ Published(h) = <<h.seed[1].data, h.seed[1].loading, h.seed[1].error>>
                     /\ cache = [fetch |-> <<>>, graphql |-> <<>>]

\* Witness of C24: the component called refetch() and then unmounted, both
\* before the debounce delay had passed; its triggers started nothing.
UnmountCancelsDebounceReached ==
    \E i \in Inst :
        /\ hooks[i].phase = "unmounted"
        /\ hooks[i].refetches = 1
        /\ hooks[i].fires = 0
        /\ hooks[i].calls = 0
        /\ hooks[i].loading = TRUE

\* ------------------------------------------------------- the timeout timers

\* C22 as stated: once an attempt has completed (its fetch promise rejected,
\* its response was not ok, or its body was or failed to be decoded) its
\* timeout timer is cleared and is no longer in the tracked set.
TimerEndsWithAttempt ==
    \A i \in Inst : \A a \in 1..Len(hooks[i].atts) :
        ~InFlight(hooks[i], a)
        => /\ hooks[i].atts[a].timer = "cleared"
           /\ a \notin hooks[i].timeoutIds

\* C23: when the timeout timer of an attempt fires while its fetch promise is
\* pending, the attempt's controller is canceled; when the transport then
\* rejects the promise with the abort, the abort message is published as
\* error and the sequence goes on: with attempts left it waits for the retry
\* delay and starts the next attempt, with none left it ends with
\* loading = false.
TimeoutFailsAttempt ==
    [][\A i \in Inst : \A s \in 1..Len(hooks[i].seqs) :
        LET h == hooks[i]
            g == hooks'[i]
            a == h.seqs[s].cur
        IN  /\ (h.seqs[s].pc = "fetch" /\ h.atts[a].timer = "pending"
                    /\ g.atts[a].timer = "fired")
               => g.atts[a].aborted /\ g.seqs[s] = h.seqs[s]
            /\ (h.seqs[s].pc = "fetch" /\ h.atts[a].timer = "fired"
                    /\ g.seqs[s].attempt # h.seqs[s].attempt
                    /\ g.lastThrown = Some(AbortError))
               => /\ g.error = Some(AbortError.message)
                  /\ g.seqs[s].attempt = h.seqs[s].attempt + 1
                  /\ g.calls = h.calls
                  /\ IF g.seqs[s].attempt <= h.params.retries
                     THEN g.seqs[s].pc = "delay"
                     ELSE g.seqs[s].pc = "done" /\ g.loading = FALSE
            /\ (h.seqs[s].pc = "delay" /\ g.seqs[s] # h.seqs[s])
               => /\ g.seqs[s].pc = "fetch"
                  /\ g.seqs[s].attempt = h.seqs[s].attempt
                  /\ g.seqs[s].cur = Len(h.atts) + 1
                  /\ g.calls = h.calls + 1]_vars

\* Witness of C23: the first attempt timed out and was rejected with the
\* abort, its message is the published error, and after the retry delay the
\* second attempt is in flight.
TimeoutFailsAttemptReached ==
    \E i \in Inst :
        LET h == hooks[i]
        IN  /\ Len(h.seqs) = 1 /\ h.calls = 2
            /\ h.atts[1].timer = "fired" /\ h.atts[1].aborted
            /\ h.lastThrown = Some(AbortError)
            /\ h.error = Some(AbortError.message)
            /\ h.seqs[1].pc = "fetch" /\ h.seqs[1].attempt = 1 /\ h.seqs[1].cur = 2

\* --------------------------------------------------------- the response cache

\* Sequence s of the instance decodes a body without errors in this step.
Succeeds(h, g, s) ==
    /\ s \in 1..Len(h.seqs)
    /\ h.seqs[s].pc = "json"
    /\ g.seqs[s].pc = "done"
    /\ g.seqs[s].attempt = h.seqs[s].attempt

\* C25: the response cache changes only in a step in which an attempt of an
\* instance with caching enabled succeeds, and then the entry of that
\* instance's fingerprint becomes the result decoded by that attempt; a failed
\* attempt and an instance with caching disabled leave it as it is, and no
\* entry is ever removed.
CacheOnlyGrows ==
    [][/\ \A kind \in DOMAIN cache : DOMAIN cache[kind] \subseteq DOMAIN cache'[kind]
       /\ cache' # cache
          => \E i \in Inst : \E s \in 1..Len(hooks[i].seqs) :
                /\ hooks[i].params.useCache
                /\ Succeeds(hooks[i], hooks'[i], s)
                /\ hooks'[i].lastResult # Undefined
                /\ cache' = CacheSet(cache, hooks[i].params, hooks'[i].lastResult[1])
       /\ \A i \in Inst : \A s \in 1..Len(hooks[i].seqs) :
            (hooks'[i].seqs[s] # hooks[i].seqs[s]
                /\ (~hooks[i].params.useCache \/ ~Succeeds(hooks[i], hooks'[i], s)))
            => cache' = cache]_vars

\* Witness of C25: of two instances with the same url, the one without caching
\* has decoded a body and written nothing, and the entry is the other body,
\* decoded by the instance with caching.
CacheOnlyGrowsReached ==
    /\ \A i \in Inst : hooks[i].phase = "mounted"
    /\ ~hooks[1].params.useCache /\ hooks[2].params.useCache
    /\ hooks[1].params.kind = hooks[2].params.kind
    /\ hooks[1].params.key = hooks[2].params.key
    /\ hooks[1].lastResult # Undefined /\ hooks[2].lastResult # Undefined
    /\ hooks[1].lastResult # hooks[2].lastResult
    /\ CacheGet(cache, hooks[2].params) = hooks[2].lastResult[1]
    /\ hooks[2].seqs[1].pc = "done"

\* Two mounted instances with caching enabled and the same fingerprint.
SharedFingerprint(i, j) ==
    /\ i # j
    /\ hooks[i].phase = "mounted" /\ hooks[j].phase = "mounted"
    /\ hooks[i].params.useCache /\ hooks[j].params.useCache
    /\ hooks[i].params.kind = hooks[j].params.kind
    /\ hooks[i].params.key = hooks[j].params.key

\* C26: of two instances with caching enabled and the same fingerprint, each
\* one whose debounce callback finds no entry invokes the transport, so both
\* do when neither has written yet; every successful decode overwrites the
\* entry with its own result, so after both have succeeded the entry is the
\* result of the decode that completed last.
LastWriterWins ==
    [][\A i, j \in Inst :
        SharedFingerprint(i, j)
        => LET h == hooks[i]
               g == hooks'[i]
           IN  /\ (g.fires = h.fires + 1 /\ ~CacheHas(cache, h.params))
                  => /\ g.calls = h.calls + 1
                     /\ g.lastReq # Undefined
                     /\ hooks'[j].calls = hooks[j].calls
               /\ \A s \in 1..Len(h.seqs) :
                    Succeeds(h, g, s)
                    => /\ CacheGet(cache', h.params) = g.lastResult[1]
                       /\ g.data = g.lastResult[1]
                       /\ hooks'[j] = hooks[j]]_vars

\* Witness of C26: both instances invoked the transport, instance 1 decoded
\* its body first and wrote it, instance 2 decoded another body afterwards, and
\* the entry is the body of instance 2.
LastWriterWinsReached ==
    /\ SharedFingerprint(1, 2)
    /\ hooks[1].calls = 1 /\ hooks[2].calls = 1
    /\ hooks[1].lastResult # Undefined /\ hooks[2].lastResult # Undefined
    /\ hooks[1].lastResult # hooks[2].lastResult
    /\ hooks[1].data = hooks[1].lastResult[1]
    /\ CacheGet(cache, hooks[1].params) = hooks[2].lastResult[1]

\* ------------------------------------------------------------ the retry delay

AsMap(call) ==
    LET variables == Get(call.config, "variables", <<>>)
    IN  {variables[k] : k \in DOMAIN variables}

\* C28 as stated: two useGraphQL calls have the same fingerprint exactly when
\* they have the same url, the same query and variables that are equal as
\* maps, in whatever order the variables were written.
FingerprintCanonical ==
    \A i, j \in Inst :
        (hooks[i].phase = "mounted" /\ hooks[j].phase = "mounted"
            /\ hooks[i].params.kind = "graphql" /\ hooks[j].params.kind = "graphql")
        => LET c == hooks[i].seed[1].call
               d == hooks[j].seed[1].call
           IN  (hooks[i].params.key = hooks[j].params.key)
               <=> (c.url = d.url /\ c.query = d.query /\ AsMap(c) = AsMap(d))

\* -------------------------------------------------------------- termination

SupersededSequenceSilent ==
    [][\A i \in Inst : \A s \in 1..Len(hooks[i].seqs) :
        (/\ hooks[i].phase = "mounted" /\ hooks'[i].phase = "mounted"
         /\ s < Len(hooks[i].seqs)
         /\ hooks'[i].seqs[s] # hooks[i].seqs[s])
        => /\ hooks'[i].calls = hooks[i].calls
           /\ Published(hooks'[i]) = Published(hooks[i])]_vars

\* ------------------------------------------------------------- after unmount

\* C31 as stated: once the component is unmounted its instance invokes the
\* transport no more, creates no timeout timer and writes no cache entry.
NoWorkAfterUnmount ==
    [][\A i \in Inst :
        hooks[i].phase = "unmounted"
        => /\ hooks'[i].calls = hooks[i].calls
           /\ Len(hooks'[i].atts) = Len(hooks[i].atts)
           /\ hooks'[i].timeoutIds \subseteq hooks[i].timeoutIds
           /\ cache' = cache]_vars

\* ----------------------------------------------------- the cache-hit path

\* C32 as stated: when a debounce callback takes the cache-hit path, the
\* state it leaves published has error unset.
CacheHitClearsError ==
    [][\A i \in Inst :
        (/\ hooks[i].phase = "mounted"
         /\ hooks'[i].fires = hooks[i].fires + 1
         /\ CacheHit(hooks[i], cache))
        => hooks'[i].error = Undefined]_vars

\* ------------------------------------------------------ an empty errors list

\* C33 as stated: in useGraphQL the decoding of an ok response whose body has
\* an empty errors list ends the sequence with success: the data of the body
\* is published, error is unset, the cache entry is written when caching is
\* enabled, and no attempt is counted as failed.
EmptyErrorsSucceed ==
    [][\A i \in Inst : \A s \in 1..Len(hooks[i].seqs) :
        LET h == hooks[i]
            g == hooks'[i]
        IN  (h.params.kind = "graphql" /\ h.seqs[s].pc = "json" /\ g.seqs[s] # h.seqs[s])
            => /\ g.seqs[s].pc = "done"
               /\ g.seqs[s].attempt = h.seqs[s].attempt
               /\ g.data # Undefined
               /\ g.error = Undefined
               /\ h.params.useCache => CacheGet(cache', h.params) = g.data]_vars

\* ------------------------------------------------------------------- loading

\* C34 as stated: a mounted instance that publishes loading = true has a
\* pending debounce timer or a retry sequence that has not ended.
LoadingMeansWork ==
    \A i \in Inst :
        (hooks[i].phase = "mounted" /\ hooks[i].loading = TRUE)
        => hooks[i].debounceTimers # <<>> \/ Running(hooks[i])

\* ------------------------------------------------- the number of invocations

====
